---- MODULE Spec2Model ----
(***************************************************************************)
(* Model of start_app.py, the Bitcoin mining calculator: the month-by-    *)
(* month simulation loop run by the "Calculate" button and the break-even *)
(* summary computed from the stored table.                                 *)
(*                                                                         *)
(* Money is a Python float in the source.  Here every amount of the loop   *)
(* is an exact integer number of 1/SCALE rouble, SCALE chosen so that the  *)
(* divisions by 100 of the source (cents of the provider's daily profit,   *)
(* reinvest %, wallet %) are exact.  The integer columns of a row are the  *)
(* int() truncations of the source; the wallet column is the value that    *)
(* format_number prints and the summary parses back, in 1/100 of the       *)
(* display currency.                                                       *)
(***************************************************************************)
EXTENDS Integers, Sequences, FiniteSets, TLC

\* ---------------------------------------------------------------- bounds
MaxEnd == 3
MaxSegments == 2
MaxScenarios == 3
MaxClock == 4200
MaxRetries == 3
MaxMiningClock == 912

\* ------------------------------------------------------------- input sets
\* the equipment and the rate of a run, as (asic_count, asic_price, usd_rub):
\* st.number_input("Количество ASIC", min_value=1),
\* st.number_input("Стоимость 1 ASIC ($)", min_value=1) and the positive rate
\* of get_usd_rub_rate()
Equipment == {<<1, 1, 2>>, <<1, 3, 2>>, <<2, 1, 3>>}
\* mining_data_per_asic["daily_profit"] in cents of a dollar; whattomine's
\* "profit" string may carry a minus sign
DailyProfitCents == {-5, 5}
\* (asic_power / 1000) * 24 * electricity, roubles per day: 3 is the minimum
\* power (100 W) at a tariff of 1.25 rub/kWh
DailyCostRub == {3}
\* the two sliders of a segment, as (reinvest, wallet)
Policies == {<<50, 10>>, <<100, 0>>}

SCALE == 100 * 100 * 10

None == {}

VARIABLES
    \* inputs of the run (widgets and providers)
    asic_count, asic_price, usd_rub, daily_profit, daily_cost, show_in_usd,
    scenarios,
    \* the Calculate handler
    pc, month, current_asics, savings, wallet_btc, cumulative_profit,
    break_even_month, results,
    \* history of the loop body's unrounded values, one entry per simulated month
    trace,
    \* the summary
    row_i, cumulative_salary_wallet, clean_break_even_month,
    dirty_break_even_month

VARIABLES
    \* the last operation on the scenario list, with the list as it was before
    tl_op,
    \* a widget of some segment has been edited since the session began
    edited,
    \* API_CACHE: key -> [value, timestamp], each None or {x}; time.time()
    API_CACHE, now,
    \* the last call of get_btc_price / get_usd_rub_rate and what it returned
    price_ret,
    \* get_mining_data_with_retry: position, loop index, arguments, number of
    \* requests sent, value returned (None or {result})
    m_pc, attempt, retries, m_params, fetches, m_ret,
    \* st.session_state.saved_results and the last submit of the save form
    saved_results, st_op

equipment == <<asic_count, asic_price, usd_rub, daily_profit, daily_cost,
               show_in_usd>>
inputs == <<asic_count, asic_price, usd_rub, daily_profit, daily_cost,
            show_in_usd, scenarios>>
timeline == <<tl_op, edited>>
cache == <<API_CACHE, now, price_ret>>
mining == <<m_pc, attempt, retries, m_params, fetches, m_ret>>
store == <<saved_results, st_op>>
glue == <<timeline, cache, mining, store>>
calc == <<month, current_asics, savings, wallet_btc, cumulative_profit,
          break_even_month, results, trace>>
summary == <<row_i, cumulative_salary_wallet, clean_break_even_month,
             dirty_break_even_month>>
vars == <<inputs, calc, summary, pc, glue>>

\* ---------------------------------------------------------------- helpers
\* the quotient rounded down, as a // b is
TruncFloor(a, b) == a \div b

\* int(x) of a float x = a / b, b > 0: truncation toward zero
Trunc(a, b) == IF a >= 0 THEN a \div b ELSE -((-a) \div b)

\* "{:,.Nf}".format(x) of x = a / b, b > 0: round to nearest, ties to even
RoundHalfEven(a, b) ==
    LET q == a \div b
        r == a - q * b
    IN  IF 2 * r < b THEN q
        ELSE IF 2 * r > b THEN q + 1
        ELSE IF q % 2 = 0 THEN q ELSE q + 1

Max(S) == CHOOSE x \in S : \A y \in S : y <= x
Min(S) == CHOOSE x \in S : \A y \in S : x <= y

\* a segment as the widgets allow it: start >= 1, end >= start
Segments ==
    { [start |-> s, end |-> e, reinvest |-> p[1], wallet |-> p[2]] :
        s \in 1..MaxEnd, e \in 1..MaxEnd, p \in Policies }
ValidSegments == { sc \in Segments : sc.start <= sc.end }

Timelines == UNION { [1..n -> ValidSegments] : n \in 1..MaxSegments }

\* the horizon taken from the last segment of the list instead of the maximum
TotalMonthsOfLast(scs) ==
    IF Len(scs) = 0 THEN 12 ELSE scs[Len(scs)].end

\* total_months = max(s["end"] for s in scenarios) if scenarios else 12
TotalMonths(scs) ==
    IF Len(scs) = 0 THEN 12 ELSE Max({ scs[i].end : i \in 1..Len(scs) })

Contains(sc, m) == sc.start <= m /\ m <= sc.end

\* for scenario in scenarios: if start <= month <= end: active = scenario; break
\* the index of the active scenario from position i on, 0 when there is none
RECURSIVE ScanScenarios(_, _, _)
ScanScenarios(scs, m, i) ==
    IF i > Len(scs) THEN 0
    ELSE IF Contains(scs[i], m) THEN i
    ELSE ScanScenarios(scs, m, i + 1)

\* a scan without the break: the last matching segment wins
ActiveScenarioLast(scs, m) ==
    IF \A k \in 1..Len(scs) : ~Contains(scs[k], m) THEN 0
    ELSE Max({ k \in 1..Len(scs) : Contains(scs[k], m) })

ActiveScenario(scs, m) == ScanScenarios(scs, m, 1)

\* asic_price * usd_rub, the price of a unit in roubles
UnitPrice == asic_price * usd_rub * SCALE

\* total_investment = asic_count * asic_price * usd_rub
total_investment == asic_count * asic_price * usd_rub * SCALE

\* daily_profit_per_asic_rub = daily_profit_per_asic_usd * usd_rub
daily_profit_per_asic_rub == daily_profit * usd_rub * (SCALE \div 100)

\* daily_cost_per_asic_rub = (asic_power / 1000) * 24 * electricity
daily_cost_per_asic_rub == daily_cost * SCALE

\* the month's profit taken as revenue less the modelled electricity cost
MonthProfitLessCost(n) ==
    daily_profit_per_asic_rub * 30 * n - daily_cost_per_asic_rub * 30 * n

\* profit = daily_profit_per_asic_rub * 30 * current_asics
MonthProfit(n) == daily_profit_per_asic_rub * 30 * n

\* the whole reinvested amount saved for units, the wallet share not taken off
ToAsicsAll(to_reinvest, to_wallet) == to_reinvest

\* to_asics = to_reinvest - to_wallet
ToAsics(to_reinvest, to_wallet) == to_reinvest - to_wallet

\* new_asics = int(savings // (asic_price * usd_rub))
NewAsics(sav) == sav \div UnitPrice

\* the row showing the fleet the month began with
RowAsicsBeforePurchase(before, after) == before

\* "ASIC": current_asics in results.append, read after the purchase
RowAsics(before, after) == after

\* the purchase applied without the new_asics > 0 test
BoughtUnguarded(new_asics) == new_asics

\* if new_asics > 0: current_asics += new_asics; savings -= new_asics * price
Bought(new_asics) == IF new_asics > 0 THEN new_asics ELSE 0

\* the update without the "break_even_month is None" test
BreakEvenOverwrite(bem, cum, m) ==
    IF cum >= total_investment THEN {m} ELSE bem

\* if cumulative_profit >= total_investment and break_even_month is None
BreakEvenUpdate(bem, cum, m) ==
    IF cum >= total_investment /\ bem = None THEN {m} ELSE bem

\* the divisor that turns a scaled rouble amount into the display currency
DisplayDiv == IF show_in_usd THEN SCALE * usd_rub ELSE SCALE

\* format_number(wallet_btc * btc_usd [* usd_rub], 2 | 0, ...) as the summary
\* parses it back, in 1/100 of the display currency
WalletShown(wbtc) ==
    IF show_in_usd THEN RoundHalfEven(wbtc, (SCALE \div 100) * usd_rub)
    ELSE 100 * RoundHalfEven(wbtc, SCALE)

\* ------------------------------------------------------------------- Init
NoOp == [op |-> "none", index |-> 0, before |-> << >>]

\* no operation on the scenario list is under way
TimelineIdle ==
    /\ tl_op = NoOp
    /\ edited = FALSE

\* API_CACHE as the module sets it, no call made yet
CacheIdle ==
    /\ API_CACHE = [k \in {"btc_price", "usd_rub", "mining_data"} |->
                       [value |-> None, timestamp |-> None]]
    /\ now = 300
    /\ price_ret = [key |-> "none", value |-> 0, fetched |-> FALSE,
                    all_failed |-> FALSE, before |-> None]

MiningIdle ==
    /\ m_pc = "idle"
    /\ attempt = 0
    /\ retries = 3
    /\ m_params = 1
    /\ fetches = 0
    /\ m_ret = None

\* st.session_state.saved_results = {}
StoreIdle ==
    /\ saved_results = [n \in {} |-> 0]
    /\ st_op = [op |-> "none"]

Init ==
    /\ \E e \in Equipment :
          /\ asic_count = e[1]
          /\ asic_price = e[2]
          /\ usd_rub = e[3]
    /\ daily_profit \in DailyProfitCents
    /\ daily_cost \in DailyCostRub
    /\ show_in_usd \in BOOLEAN
    /\ scenarios \in Timelines
    /\ pc = "loop"
    /\ month = 1
    /\ current_asics = asic_count
    /\ savings = 0
    /\ wallet_btc = 0
    /\ cumulative_profit = 0
    /\ break_even_month = None
    /\ results = << >>
    /\ trace = << >>
    /\ row_i = 1
    /\ cumulative_salary_wallet = 0
    /\ clean_break_even_month = None
    /\ dirty_break_even_month = None
    /\ TimelineIdle
    /\ CacheIdle
    /\ MiningIdle
    /\ StoreIdle

\* ------------------------------------------------ the simulation loop body
SimulateMonth ==
    /\ pc = "loop"
    /\ month <= TotalMonths(scenarios)
    /\ ActiveScenario(scenarios, month) # 0
    /\ LET active_scenario == scenarios[ActiveScenario(scenarios, month)]
           reinvest_percent == active_scenario.reinvest
           wallet_percent == active_scenario.wallet
           profit == MonthProfit(current_asics)
           cost == daily_cost_per_asic_rub * 30 * current_asics
           to_reinvest == (profit \div 100) * reinvest_percent
           salary == profit - to_reinvest
           to_wallet == (to_reinvest \div 100) * wallet_percent
           to_asics == ToAsics(to_reinvest, to_wallet)
           savings_acc == savings + to_asics
           wallet_new == wallet_btc + to_wallet
           new_asics == NewAsics(savings_acc)
           asics_new == current_asics + Bought(new_asics)
           savings_new == savings_acc - Bought(new_asics) * UnitPrice
           cum_new == cumulative_profit + profit
       IN  /\ current_asics' = asics_new
           /\ savings' = savings_new
           /\ wallet_btc' = wallet_new
           /\ cumulative_profit' = cum_new
           /\ break_even_month' = BreakEvenUpdate(break_even_month, cum_new, month)
           /\ results' = Append(results,
                [Month |-> month,
                 ASIC |-> RowAsics(current_asics, asics_new),
                 Revenue |-> Trunc(profit + cost, DisplayDiv),
                 Cost |-> Trunc(cost, DisplayDiv),
                 Profit |-> Trunc(profit, DisplayDiv),
                 Salary |-> Trunc(salary, DisplayDiv),
                 Reinvest |-> Trunc(to_reinvest, DisplayDiv),
                 ToWallet |-> Trunc(to_wallet, DisplayDiv),
                 Savings |-> Trunc(savings_new, DisplayDiv),
                 Wallet |-> WalletShown(wallet_new)])
           /\ trace' = Append(trace,
                [month |-> month,
                 reinvest |-> reinvest_percent,
                 wallet |-> wallet_percent,
                 asics_before |-> current_asics,
                 profit |-> profit,
                 cost |-> cost,
                 salary |-> salary,
                 to_reinvest |-> to_reinvest,
                 to_wallet |-> to_wallet,
                 to_asics |-> to_asics,
                 savings_before |-> savings_acc,
                 new_asics |-> new_asics,
                 asics_after |-> asics_new,
                 savings_after |-> savings_new,
                 cumulative_profit |-> cum_new])
    /\ month' = month + 1
    /\ UNCHANGED <<glue, inputs, summary, pc>>

\* if not active_scenario: continue
SkipMonth ==
    /\ pc = "loop"
    /\ month <= TotalMonths(scenarios)
    /\ ActiveScenario(scenarios, month) = 0
    /\ month' = month + 1
    /\ UNCHANGED <<glue, inputs, summary, pc, current_asics, savings, wallet_btc,
                   cumulative_profit, break_even_month, results, trace>>

\* st.session_state.current_results = df; st.rerun()
FinishCalc ==
    /\ pc = "loop"
    /\ month > TotalMonths(scenarios)
    /\ pc' = "clean"
    /\ row_i' = 1
    /\ cumulative_salary_wallet' = 0
    /\ clean_break_even_month' = None
    /\ UNCHANGED <<glue, inputs, calc, dirty_break_even_month>>

\* ------------------------------------------------------------- the summary
\* initial_investment = asic_count * asic_price * (usd_rub if not show_in_usd else 1)
initial_investment ==
    asic_count * asic_price * (IF show_in_usd THEN 1 ELSE usd_rub)

\* the update without the "clean_break_even_month is None" test
CleanOverwrite(cbem, cum, m) ==
    IF cum >= initial_investment * 100 THEN {m} ELSE cbem

\* if cumulative_salary_wallet >= initial_investment and
\*    clean_break_even_month is None: clean_break_even_month = row['Месяц']
CleanUpdate(cbem, cum, m) ==
    IF cum >= initial_investment * 100 /\ cbem = None THEN {m} ELSE cbem

\* for _, row in df.iterrows(): cumulative_salary_wallet += salary + wallet_value
CleanStep ==
    /\ pc = "clean"
    /\ row_i <= Len(results)
    /\ LET row == results[row_i]
           cum == cumulative_salary_wallet + row.Salary * 100 + row.Wallet
       IN  /\ cumulative_salary_wallet' = cum
           /\ clean_break_even_month' =
                  CleanUpdate(clean_break_even_month, cum, row.Month)
    /\ row_i' = row_i + 1
    /\ UNCHANGED <<glue, inputs, calc, pc, dirty_break_even_month>>

CleanEnd ==
    /\ pc = "clean"
    /\ row_i > Len(results)
    /\ pc' = "dirty"
    /\ row_i' = 1
    /\ UNCHANGED <<glue, inputs, calc, cumulative_salary_wallet,
                   clean_break_even_month, dirty_break_even_month>>

\* cumulative_profit = df['Прибыль'].cumsum(), at the 0-based label k - 1
RECURSIVE CumSumProfit(_, _)
CumSumProfit(rows, k) ==
    IF k = 0 THEN 0 ELSE CumSumProfit(rows, k - 1) + rows[k].Profit

\* cumulative_profit[row['Месяц'] - 1]: the label must be in the RangeIndex
HasLabel(rows, m) == m - 1 \in 0..(Len(rows) - 1)

\* the label is in the index and the threshold is not reached: next row
DirtyStep ==
    /\ pc = "dirty"
    /\ row_i <= Len(results)
    /\ HasLabel(results, results[row_i].Month)
    /\ CumSumProfit(results, results[row_i].Month) < initial_investment
    /\ row_i' = row_i + 1
    /\ UNCHANGED <<glue, inputs, calc, pc, cumulative_salary_wallet,
                   clean_break_even_month, dirty_break_even_month>>

\* dirty_break_even_month = row['Месяц']; break
DirtyFound ==
    /\ pc = "dirty"
    /\ row_i <= Len(results)
    /\ HasLabel(results, results[row_i].Month)
    /\ CumSumProfit(results, results[row_i].Month) >= initial_investment
    /\ dirty_break_even_month' = {results[row_i].Month}
    /\ pc' = "done"
    /\ UNCHANGED <<glue, inputs, calc, row_i, cumulative_salary_wallet,
                   clean_break_even_month>>

\* the label row['Месяц'] - 1 is not in the index: pandas raises KeyError and
\* the script run ends without a summary
DirtyKeyError ==
    /\ pc = "dirty"
    /\ row_i <= Len(results)
    /\ ~HasLabel(results, results[row_i].Month)
    /\ pc' = "KeyError"
    /\ UNCHANGED <<glue, inputs, calc, summary>>

\* the loop ran over every row without a break: summary_data is built
DirtyEnd ==
    /\ pc = "dirty"
    /\ row_i > Len(results)
    /\ pc' = "done"
    /\ UNCHANGED <<glue, inputs, calc, summary>>

Next ==
    \/ SimulateMonth
    \/ SkipMonth
    \/ FinishCalc
    \/ CleanStep
    \/ CleanEnd
    \/ DirtyStep
    \/ DirtyFound
    \/ DirtyKeyError
    \/ DirtyEnd

Spec == Init /\ [][Next]_vars

\* ===================================================================
\* The scenario list: add_scenario, remove_scenario, the segment widgets
\* ===================================================================

\* the values a user puts into the widgets of a segment
EditedSegments ==
    { [start |-> 2, end |-> 3, reinvest |-> 100, wallet |-> 0],
      [start |-> 5, end |-> 22, reinvest |-> 50, wallet |-> 10] }

\* the calculator at rest while the scenario list is worked on
CalcIdle ==
    /\ asic_count = 1
    /\ asic_price = 1
    /\ usd_rub = 2
    /\ daily_profit = 5
    /\ daily_cost = 3
    /\ show_in_usd = FALSE
    /\ pc = "loop"
    /\ month = 1
    /\ current_asics = 1
    /\ savings = 0
    /\ wallet_btc = 0
    /\ cumulative_profit = 0
    /\ break_even_month = None
    /\ results = << >>
    /\ trace = << >>
    /\ row_i = 1
    /\ cumulative_salary_wallet = 0
    /\ clean_break_even_month = None
    /\ dirty_break_even_month = None

\* a new segment numbered by the count of segments, not by the last end
NewSegmentByCount(scs) ==
    [start |-> 12 * Len(scs) + 1, end |-> 12 * Len(scs) + 12,
     reinvest |-> 50, wallet |-> 10]

\* add_scenario: the segment it appends
NewSegment(scs) ==
    IF Len(scs) = 0
    THEN [start |-> 1, end |-> 12, reinvest |-> 50, wallet |-> 10]
    ELSE [start |-> scs[Len(scs)].end + 1, end |-> scs[Len(scs)].end + 12,
          reinvest |-> 50, wallet |-> 10]

\* list.pop(index): the 1-based position removed, 0 for IndexError
PopPosition(scs, index) ==
    IF 0 <= index /\ index < Len(scs) THEN index + 1
    ELSE IF -Len(scs) <= index /\ index < 0 THEN Len(scs) + index + 1
    ELSE 0

\* the list without position k
Popped(scs, k) ==
    [i \in 1..(Len(scs) - 1) |-> IF i < k THEN scs[i] ELSE scs[i + 1]]

\* the renumbering loop of remove_scenario over positions 1..n, in order
RECURSIVE RenumberTo(_, _)
RenumberTo(scs, n) ==
    IF n = 0 THEN << >>
    ELSE LET done == RenumberTo(scs, n - 1)
             st == IF n = 1 THEN 1 ELSE done[n - 1].end + 1
         IN  Append(done, [scs[n] EXCEPT !.start = st, !.end = st + 11])

\* a renumbering that keeps the span each segment had
RECURSIVE RenumberKeepSpanTo(_, _)
RenumberKeepSpanTo(scs, n) ==
    IF n = 0 THEN << >>
    ELSE LET done == RenumberKeepSpanTo(scs, n - 1)
             st == IF n = 1 THEN 1 ELSE done[n - 1].end + 1
         IN  Append(done, [scs[n] EXCEPT !.start = st,
                              !.end = st + (scs[n].end - scs[n].start)])

RenumberKeepSpan(scs) == RenumberKeepSpanTo(scs, Len(scs))

Renumber(scs) == RenumberTo(scs, Len(scs))

\* a renumbering that leaves the first remaining segment as it was
RenumberedAfterFirst(scs, k) ==
    LET r == Renumber(Popped(scs, k))
    IN  IF Len(r) = 0 THEN r ELSE [r EXCEPT ![1] = Popped(scs, k)[1]]

\* remove_scenario: the list after pop(k) and the renumbering
Removed(scs, k) == Renumber(Popped(scs, k))

AddScenario ==
    /\ Len(scenarios) < MaxScenarios
    /\ scenarios' = Append(scenarios, NewSegment(scenarios))
    /\ tl_op' = [op |-> "add", index |-> 0, before |-> scenarios]
    /\ UNCHANGED <<cache, mining, store, equipment, calc, summary, pc, edited>>

RemoveScenario(index) ==
    /\ PopPosition(scenarios, index) # 0
    /\ scenarios' = Removed(scenarios, PopPosition(scenarios, index))
    /\ tl_op' = [op |-> "remove", index |-> index, before |-> scenarios]
    /\ UNCHANGED <<cache, mining, store, equipment, calc, summary, pc, edited>>

\* pop raises IndexError before anything is changed
RemoveScenarioError(index) ==
    /\ PopPosition(scenarios, index) = 0
    /\ tl_op' = [op |-> "IndexError", index |-> index, before |-> scenarios]
    /\ UNCHANGED <<cache, mining, store, equipment, scenarios, calc, summary, pc, edited>>

\* st.session_state.scenarios[i] = {start, end, reinvest, wallet} of the widgets
EditScenario(i, seg) ==
    /\ i \in 1..Len(scenarios)
    /\ scenarios' = [scenarios EXCEPT ![i] = seg]
    /\ tl_op' = [op |-> "edit", index |-> i - 1, before |-> scenarios]
    /\ edited' = TRUE
    /\ UNCHANGED <<cache, mining, store, equipment, calc, summary, pc>>

InitTimeline ==
    /\ CalcIdle
    /\ scenarios = << >>
    /\ TimelineIdle
    /\ CacheIdle
    /\ MiningIdle
    /\ StoreIdle

NextTimeline ==
    \/ AddScenario
    \/ \E index \in (-(MaxScenarios + 1))..MaxScenarios : RemoveScenario(index)
    \/ \E index \in (-(MaxScenarios + 1))..MaxScenarios :
          RemoveScenarioError(index)
    \/ \E i \in 1..MaxScenarios, seg \in EditedSegments : EditScenario(i, seg)

SpecTimeline == InitTimeline /\ [][NextTimeline]_vars

\* ===================================================================
\* The price providers: get_btc_price, get_usd_rub_rate and API_CACHE
\* ===================================================================

\* what one source gives to fetch_with_fallback: None for an exception, a
\* bad status or a parse result of None, otherwise the parsed number
BtcResponses == {None, {0}, {60000}}
UsdRubResponses == {None, {0}, {80}}

\* seconds that pass between two calls
TickSteps == {300, 3600}

\* API_CACHE[key]["expires"]
Expires(key) ==
    CASE key = "btc_price" -> 300
      [] key = "usd_rub" -> 3600
      [] key = "mining_data" -> 600

\* price = price or 50000; rate = rate or 90
Default(key) == IF key = "btc_price" THEN 50000 ELSE 90

\* the content of an optional value
Val(opt) == CHOOSE x \in opt : TRUE

\* Python truth of None or a number
TruthyNum(opt) == opt # None /\ 0 \notin opt

\* Python truth of a cached value: a number, or the result dict of the
\* mining entry
TruthyValue(key, opt) ==
    IF key = "mining_data" THEN opt # None ELSE TruthyNum(opt)

\* get_cached_data(key)
GetCachedData(c, key, t) ==
    IF /\ TruthyValue(key, c[key].value)
       /\ TruthyNum(c[key].timestamp)
       /\ t - Val(c[key].timestamp) < Expires(key)
    THEN c[key].value
    ELSE None

\* set_cached_data(key, value)
SetCachedData(c, key, v, t) ==
    [c EXCEPT ![key] = [value |-> {v}, timestamp |-> {t}]]

\* fetch_with_fallback: the first source from position i on that gives data
RECURSIVE FetchFrom(_, _)
FetchFrom(resp, i) ==
    IF i > Len(resp) THEN None
    ELSE IF resp[i] # None THEN resp[i]
    ELSE FetchFrom(resp, i + 1)

FetchWithFallback(resp) == FetchFrom(resp, 1)

\* if price is None and API_CACHE[key]["value"]: return API_CACHE[key]["value"]
ReturnsStale(c, key, price) == price = None /\ TruthyNum(c[key].value)

\* the value returned after a fetch, the stale cache entry never used
PriceReturnedNoStale(c, key, price) ==
    IF TruthyNum(price) THEN Val(price) ELSE Default(key)

\* the value returned after a fetch: the stale entry, the fetched price or
\* the default
PriceReturned(c, key, price) ==
    IF ReturnsStale(c, key, price) THEN Val(c[key].value)
    ELSE IF TruthyNum(price) THEN Val(price)
    ELSE Default(key)

\* get_btc_price / get_usd_rub_rate, the sources answering resp
GetPrice(key, resp) ==
    LET cached == GetCachedData(API_CACHE, key, now)
        price == FetchWithFallback(resp)
        ret == PriceReturned(API_CACHE, key, price)
    IN  /\ IF TruthyNum(cached)
           THEN /\ price_ret' = [key |-> key, value |-> Val(cached),
                                 fetched |-> FALSE, all_failed |-> FALSE,
                                 before |-> API_CACHE[key].value]
                /\ UNCHANGED API_CACHE
           ELSE /\ price_ret' = [key |-> key, value |-> ret,
                                 fetched |-> TRUE,
                                 all_failed |->
                                     \A i \in 1..Len(resp) : resp[i] = None,
                                 before |-> API_CACHE[key].value]
                /\ API_CACHE' =
                       IF ReturnsStale(API_CACHE, key, price) THEN API_CACHE
                       ELSE SetCachedData(API_CACHE, key, ret, now)
        /\ UNCHANGED <<now, inputs, calc, summary, pc, timeline, mining, store>>

GetBtcPrice == \E resp \in [1..3 -> BtcResponses] : GetPrice("btc_price", resp)

GetUsdRubRate ==
    \E resp \in [1..3 -> UsdRubResponses] : GetPrice("usd_rub", resp)

\* time.time() moves on between two calls
Tick(d) ==
    /\ now + d <= MaxClock
    /\ now' = now + d
    /\ UNCHANGED <<API_CACHE, price_ret, inputs, calc, summary, pc, timeline,
                   mining, store>>

InitPrice ==
    /\ CalcIdle
    /\ scenarios = << >>
    /\ TimelineIdle
    /\ CacheIdle
    /\ MiningIdle
    /\ StoreIdle

NextPrice ==
    \/ GetBtcPrice
    \/ GetUsdRubRate
    \/ \E d \in TickSteps : Tick(d)

SpecPrice == InitPrice /\ [][NextPrice]_vars

\* ===================================================================
\* The mining data provider: get_mining_data_with_retry
\* ===================================================================

\* what identifies a request: hashrate_th (power_w and electricity_cost_usd
\* go the same way into params)
MiningParams == {1, 2}

\* the result parsed from the answer to a request, in cents
YieldFor(p) == [daily_profit |-> 1000 * p, daily_revenue |-> 1500 * p]

\* {"daily_profit": 12.50, "daily_revenue": 18.00}
MiningDefault == [daily_profit |-> 1250, daily_revenue |-> 1800]

\* time.sleep(1 * (attempt + 1)) summed over a call whose attempts all fail
RECURSIVE SleepTotal(_)
SleepTotal(r) == IF r <= 1 THEN 0 ELSE (r - 1) + SleepTotal(r - 1)

\* the call with a cache that answers only the request it was filled for
MiningCallKeyed(r, p) ==
    LET cached == GetCachedData(API_CACHE, "mining_data", now)
    IN  /\ m_pc \in {"idle", "returned"}
        /\ now + SleepTotal(r) <= MaxMiningClock
        /\ retries' = r
        /\ m_params' = p
        /\ attempt' = 0
        /\ fetches' = 0
        /\ IF cached = {YieldFor(p)}
           THEN m_pc' = "returned" /\ m_ret' = cached
           ELSE IF r <= 0
           THEN m_pc' = "returned" /\ m_ret' = None
           ELSE m_pc' = "trying" /\ m_ret' = None
        /\ UNCHANGED <<API_CACHE, now, price_ret, inputs, calc, summary, pc,
                       timeline, store>>

\* the call, up to the first pass of "for attempt in range(retries)"
MiningCall(r, p) ==
    LET cached == GetCachedData(API_CACHE, "mining_data", now)
    IN  /\ m_pc \in {"idle", "returned"}
        /\ now + SleepTotal(r) <= MaxMiningClock
        /\ retries' = r
        /\ m_params' = p
        /\ attempt' = 0
        /\ fetches' = 0
        /\ IF cached # None
           THEN m_pc' = "returned" /\ m_ret' = cached
           ELSE IF r <= 0
           THEN m_pc' = "returned" /\ m_ret' = None
           ELSE m_pc' = "trying" /\ m_ret' = None
        /\ UNCHANGED <<API_CACHE, now, price_ret, inputs, calc, summary, pc,
                       timeline, store>>

\* the try block runs through: the result is cached and returned
AttemptSucceeds ==
    /\ m_pc = "trying"
    /\ fetches' = fetches + 1
    /\ API_CACHE' = SetCachedData(API_CACHE, "mining_data",
                                  YieldFor(m_params), now)
    /\ m_ret' = {YieldFor(m_params)}
    /\ m_pc' = "returned"
    /\ UNCHANGED <<attempt, retries, m_params, now, price_ret, inputs, calc,
                   summary, pc, timeline, store>>

\* the try block raises: the default on the last attempt, a sleep otherwise
AttemptFails ==
    /\ m_pc = "trying"
    /\ fetches' = fetches + 1
    /\ IF attempt = retries - 1
       THEN /\ m_ret' = {MiningDefault}
            /\ m_pc' = "returned"
            /\ UNCHANGED <<attempt, now>>
       ELSE /\ now' = now + (attempt + 1)
            /\ attempt' = attempt + 1
            /\ UNCHANGED <<m_ret, m_pc>>
    /\ UNCHANGED <<API_CACHE, retries, m_params, price_ret, inputs, calc,
                   summary, pc, timeline, store>>

\* time.time() moves on between two calls
MiningTick ==
    /\ m_pc \in {"idle", "returned"}
    /\ now + 600 <= MaxMiningClock
    /\ now' = now + 600
    /\ UNCHANGED <<API_CACHE, price_ret, mining, inputs, calc, summary, pc,
                   timeline, store>>

InitMining ==
    /\ CalcIdle
    /\ scenarios = << >>
    /\ TimelineIdle
    /\ CacheIdle
    /\ MiningIdle
    /\ StoreIdle

NextMining ==
    \/ \E r \in (-1)..MaxRetries, p \in MiningParams : MiningCall(r, p)
    \/ AttemptSucceeds
    \/ AttemptFails
    \/ MiningTick

SpecMining == InitMining /\ [][NextMining]_vars

\* ===================================================================
\* The saved results: the save form and the delete button
\* ===================================================================

\* what the user can type as result_name, a string as its characters
ResultNames ==
    {<< >>, <<" ">>, <<"a">>, <<"b">>, <<" ", "a">>, <<"a", " ">>}

\* datetime.now().isoformat() at the submit
Timestamps == {1, 2}

\* the calculation on screen at the submit: current_results,
\* current_summary and the parameters it was made with
Calculations == {"first", "second"}

\* the dictionary stored under a name
Entry(t, c) == [timestamp |-> t, data |-> c, summary |-> c, params |-> c]

RECURSIVE StripLeft(_)
StripLeft(name) ==
    IF name # << >> /\ Head(name) = " " THEN StripLeft(Tail(name)) ELSE name

RECURSIVE StripRight(_)
StripRight(name) ==
    IF name # << >> /\ name[Len(name)] = " "
    THEN StripRight(SubSeq(name, 1, Len(name) - 1))
    ELSE name

\* result_name.strip()
Strip(name) == StripRight(StripLeft(name))

\* st.session_state.saved_results[result_name] = {...}
Put(saved, name, entry) ==
    [n \in DOMAIN saved \cup {name} |-> IF n = name THEN entry ELSE saved[n]]

\* the store after a submit that does not look for the name in it
SavedOverwriting(saved, name, entry) ==
    IF Strip(name) = << >> THEN saved
    ELSE Put(saved, name, entry)

\* the store after a submit of the save form
Saved(saved, name, entry) ==
    IF Strip(name) = << >> THEN saved
    ELSE IF name \in DOMAIN saved THEN saved
    ELSE Put(saved, name, entry)

\* the submit of the save form
SaveSubmit(name, entry) ==
    /\ saved_results' = Saved(saved_results, name, entry)
    /\ st_op' = [op |-> "save", name |-> name, entry |-> entry,
                 before |-> saved_results]
    /\ UNCHANGED <<inputs, calc, summary, pc, timeline, cache, mining>>

\* del st.session_state.saved_results[name]
DeleteSaved(name) ==
    /\ name \in DOMAIN saved_results
    /\ saved_results' = [n \in DOMAIN saved_results \ {name} |->
                            saved_results[n]]
    /\ st_op' = [op |-> "delete", name |-> name,
                 entry |-> saved_results[name], before |-> saved_results]
    /\ UNCHANGED <<inputs, calc, summary, pc, timeline, cache, mining>>

InitStore ==
    /\ CalcIdle
    /\ scenarios = << >>
    /\ TimelineIdle
    /\ CacheIdle
    /\ MiningIdle
    /\ StoreIdle

NextStore ==
    \/ \E name \in ResultNames, t \in Timestamps, c \in Calculations :
           SaveSubmit(name, Entry(t, c))
    \/ \E name \in ResultNames : DeleteSaved(name)

SpecStore == InitStore /\ [][NextStore]_vars

\* ===================================================================
\* Properties
\* ===================================================================

\* the run has left the simulation loop
LoopOver == pc # "loop"
\* the summary code has ended, with a summary or with the KeyError
SummaryOver == pc \in {"done", "KeyError"}

InNoSegment(m) == \A k \in 1..Len(scenarios) : ~Contains(scenarios[k], m)

\* m lies strictly between the ranges of two defined segments
InGap(m) ==
    /\ InNoSegment(m)
    /\ \E a, b \in 1..Len(scenarios) :
          scenarios[a].end < m /\ m < scenarios[b].start

\* C1: a run emits exactly total_months() rows and the month of row i is i,
\* for every non-empty timeline, gaps and overlaps included.
C1_RowForEveryMonth ==
    LoopOver =>
        /\ Len(results) = TotalMonths(scenarios)
        /\ \A i \in 1..Len(results) : results[i].Month = i

\* C2: a month of 1..total_months() in a gap between two segments is
\* simulated with the default policy reinvest=50, wallet=10 and gets a row.
C2_GapMonthUsesDefault ==
    LoopOver =>
        \A m \in 1..TotalMonths(scenarios) :
            InGap(m) =>
                \E i \in 1..Len(trace) :
                    /\ trace[i].month = m
                    /\ results[i].Month = m
                    /\ trace[i].reinvest = 50
                    /\ trace[i].wallet = 10

\* C3: every simulated month uses the percentages of the first segment in
\* list order whose [start, end] contains it; on a boundary end_i =
\* start_{i+1} - 1 month end_i uses segment i and start_{i+1} segment i+1,
\* and with overlapping segments the earlier one in the list wins.
C3_FirstMatchingSegment ==
    \A i \in 1..Len(trace) :
        \E k \in 1..Len(scenarios) :
            /\ Contains(scenarios[k], trace[i].month)
            /\ \A j \in 1..(k - 1) : ~Contains(scenarios[j], trace[i].month)
            /\ trace[i].reinvest = scenarios[k].reinvest
            /\ trace[i].wallet = scenarios[k].wallet

\* a month lying in two segments of different policy has been simulated
C3_Witness ==
    \E i \in 1..Len(trace) :
        /\ Len(scenarios) = 2
        /\ Contains(scenarios[1], trace[i].month)
        /\ Contains(scenarios[2], trace[i].month)
        /\ scenarios[1].reinvest # scenarios[2].reinvest
        /\ trace[i].reinvest = scenarios[1].reinvest

\* C4: after the purchase step of every simulated month
\* 0 <= savings < asic_price * usd_rub, negative daily profit included.
C4_SavingsInRange ==
    \A i \in 1..Len(trace) :
        /\ 0 <= trace[i].savings_after
        /\ trace[i].savings_after < UnitPrice

\* C5: the ASIC column never decreases from one row to the next and the
\* first row's fleet is at least the initial unit count, for every input.
C5_FleetMonotone ==
    \A i \in 1..Len(results) :
        results[i].ASIC >= (IF i = 1 THEN asic_count ELSE results[i - 1].ASIC)

\* a run with negative profit has emitted two rows: the floor quotient of
\* the second month is negative and the fleet has stayed as it was
C5_Witness ==
    /\ Len(results) >= 2
    /\ daily_profit < 0
    /\ trace[2].new_asics < 0
    /\ results[2].ASIC = results[1].ASIC

RECURSIVE SumToAsics(_)
SumToAsics(i) == IF i = 0 THEN 0 ELSE SumToAsics(i - 1) + trace[i].to_asics

\* C6: in every simulated month, with new_units = floor(savings before the
\* purchase / unit price), the fleet grows by new_units and savings drop by
\* new_units * unit price, so that over every prefix of months the sum of
\* the to_units amounts equals savings plus unit price times units bought.
C6_PurchaseConserves ==
    \A i \in 1..Len(trace) :
        LET t == trace[i]
            new_units == t.savings_before \div UnitPrice
        IN  /\ t.asics_after = t.asics_before + new_units
            /\ t.savings_after = t.savings_before - new_units * UnitPrice
            /\ SumToAsics(i) =
                   t.savings_after + UnitPrice * (t.asics_after - asic_count)

\* C7: the inline dirty break-even month and the one of the post-pass over
\* the profit column are identical, USD display and gap months included.
C7_InlineEqualsPostPass ==
    SummaryOver =>
        /\ pc = "done"
        /\ dirty_break_even_month = break_even_month

RECURSIVE SumProfit(_)
SumProfit(i) == IF i = 0 THEN 0 ELSE SumProfit(i - 1) + trace[i].profit

C8_FirstReached ==
    /\ break_even_month = None =>
          \A i \in 1..Len(trace) : SumProfit(i) < total_investment
    /\ break_even_month # None =>
          \E i \in 1..Len(trace) :
              /\ break_even_month = {trace[i].month}
              /\ SumProfit(i) >= total_investment
              /\ \A j \in 1..(i - 1) : SumProfit(j) < total_investment

\* C8: the inline break-even month is set at the first simulated month whose
\* cumulative gross profit is >= the initial investment, never at a month
\* below it, and once set no later month of the run changes it.
C8_InlineBreakEven ==
    /\ [](C8_FirstReached)
    /\ [][break_even_month # None => break_even_month' = break_even_month]_vars

\* the break-even month is set and a later month has been simulated
C8_Witness ==
    /\ break_even_month # None
    /\ \E i \in 1..Len(trace) :
          /\ {trace[i].month} # break_even_month
          /\ SumProfit(i - 1) >= total_investment

\* running sum over the rows of salary + wallet value, in 1/100
RECURSIVE SumSalaryWallet(_)
SumSalaryWallet(i) ==
    IF i = 0 THEN 0
    ELSE SumSalaryWallet(i - 1) + results[i].Salary * 100 + results[i].Wallet

\* the rows the clean loop has gone over
CleanSeen == IF pc = "clean" THEN row_i - 1 ELSE Len(results)

\* C9: the clean break-even month is the month of the first row at which
\* the running sum of (salary + wallet value) is >= unit count x unit price
\* in the display currency; no earlier row reaches it and later rows do not
\* overwrite it.
C9_CleanBreakEven ==
    (pc \in {"clean", "dirty", "done", "KeyError"}) =>
        LET reached == { i \in 1..CleanSeen :
                           SumSalaryWallet(i) >= initial_investment * 100 }
        IN  clean_break_even_month =
                (IF reached = {} THEN None ELSE {results[Min(reached)].Month})

\* the summary is built, the clean month is set and a later row also
\* satisfies the threshold
C9_Witness ==
    /\ pc = "done"
    /\ clean_break_even_month # None
    /\ \E i \in 1..Len(results) :
          /\ {results[i].Month} = clean_break_even_month
          /\ i < Len(results)
          /\ SumSalaryWallet(Len(results)) >= initial_investment * 100

CleanReached ==
    \E i \in 1..Len(results) : SumSalaryWallet(i) >= initial_investment * 100
DirtyReached ==
    \E i \in 1..Len(results) : CumSumProfit(results, i) >= initial_investment

\* C10: a metric whose running sum never reaches the initial investment in
\* the emitted rows is reported as "not recovered", and a metric is reported
\* as "not recovered" only if its running sum never reached it.
C10_NotRecoveredMarker ==
    SummaryOver =>
        /\ ~CleanReached => (pc = "done" /\ clean_break_even_month = None)
        /\ ~DirtyReached => (pc = "done" /\ dirty_break_even_month = None)
        /\ (pc = "done" /\ clean_break_even_month = None) => ~CleanReached
        /\ (pc = "done" /\ dirty_break_even_month = None) => ~DirtyReached

\* C11 as stated: within one run the cumulative gross profit after a month is
\* never below the cumulative gross profit after the month before, for every
\* daily profit the provider can supply.
C11_CumulativeNonDecreasing ==
    \A i \in 1..Len(trace) :
        trace[i].cumulative_profit >=
            (IF i = 1 THEN 0 ELSE trace[i - 1].cumulative_profit)

\* C11 (amended): the cumulative gross profit changes each simulated month by
\* daily profit per unit * 30 * fleet size; it never decreases when the daily
\* profit per unit is >= 0 and it decreases every month when it is negative.
C11_CumulativeFollowsProfitSign ==
    \A i \in 1..Len(trace) :
        LET before == IF i = 1 THEN 0 ELSE trace[i - 1].cumulative_profit
            after == trace[i].cumulative_profit
        IN  /\ after - before =
                   daily_profit_per_asic_rub * 30 * trace[i].asics_before
            /\ daily_profit >= 0 => after >= before
            /\ daily_profit < 0 => after < before

\* two months of a run with positive daily profit have been simulated
C11_Witness ==
    /\ Len(trace) >= 2
    /\ daily_profit > 0
    /\ trace[2].cumulative_profit > trace[1].cumulative_profit

\* the largest end over the segments of the run's timeline
LargestEnd == Max({ scenarios[k].end : k \in 1..Len(scenarios) })

C18_MonthInRange ==
    /\ pc = "loop" => month \in 1..(LargestEnd + 1)
    /\ LoopOver => month = LargestEnd + 1
    /\ pc = "loop" => ENABLED (SimulateMonth \/ SkipMonth \/ FinishCalc)
    /\ TotalMonths(<< >>) = 12

\* C18: the loop runs once for each month 1, 2, ..., total_months(), the
\* largest end over the segments (12 for an empty list): every iteration
\* moves to the next month, none goes past total_months(), and the loop is
\* left exactly when month total_months() has been processed.
C18_ExactlyTotalMonthsIterations ==
    /\ [](C18_MonthInRange)
    /\ [][pc = "loop" =>
            \/ month <= LargestEnd /\ month' = month + 1 /\ pc' = "loop"
            \/ month = LargestEnd + 1 /\ month' = month /\ pc' = "clean"]_vars

\* the loop is over on a timeline whose largest end is not the last one's
C18_Witness ==
    /\ LoopOver
    /\ Len(scenarios) = 2
    /\ scenarios[2].end < scenarios[1].end
    /\ month = scenarios[1].end + 1

\* C20: in every simulated month salary + to_wallet + to_units = profit and
\* to_wallet + to_units = to_reinvest; with profit >= 0 each of salary,
\* to_reinvest, to_wallet and to_units lies in [0, profit].
C20_SplitExact ==
    \A i \in 1..Len(trace) :
        LET t == trace[i]
        IN  /\ t.salary + t.to_wallet + t.to_asics = t.profit
            /\ t.to_wallet + t.to_asics = t.to_reinvest
            /\ t.profit >= 0 =>
                  /\ 0 <= t.salary /\ t.salary <= t.profit
                  /\ 0 <= t.to_reinvest /\ t.to_reinvest <= t.profit
                  /\ 0 <= t.to_wallet /\ t.to_wallet <= t.profit
                  /\ 0 <= t.to_asics /\ t.to_asics <= t.profit

\* a month with positive profit has been split into three non-zero parts
C20_Witness ==
    \E i \in 1..Len(trace) :
        /\ trace[i].profit > 0
        /\ trace[i].salary > 0
        /\ trace[i].to_wallet > 0
        /\ trace[i].to_asics > 0

\* the last operation was remove_scenario(index) with index a position 0..len-1
RemovedAtValidIndex ==
    /\ tl_op.op = "remove"
    /\ tl_op.index \in 0..(Len(tl_op.before) - 1)

\* segment 0 starts at 1, every later one at the previous end + 1
Chained(scs) ==
    \A i \in 1..Len(scs) :
        scs[i].start = (IF i = 1 THEN 1 ELSE scs[i - 1].end + 1)

TwelveMonths(scs) == \A i \in 1..Len(scs) : scs[i].end = scs[i].start + 11

\* C12: after remove_scenario(index) with a valid index the remaining
\* segments keep their relative order, segment 0 starts at 1, every later
\* segment starts at the previous end + 1 and every segment ends at start + 11.
C12_RemoveRenumbers ==
    RemovedAtValidIndex =>
        LET b == tl_op.before
            k == tl_op.index + 1
        IN  /\ Len(scenarios) = Len(b) - 1
            /\ \A i \in 1..Len(scenarios) :
                  LET old == IF i < k THEN b[i] ELSE b[i + 1]
                  IN  /\ scenarios[i].reinvest = old.reinvest
                      /\ scenarios[i].wallet = old.wallet
            /\ Chained(scenarios)
            /\ TwelveMonths(scenarios)

\* segment 0 of a three-segment list has been removed; the former segment 1
\* did not span 12 months and did not start after segment 0's end
C12_Witness ==
    /\ RemovedAtValidIndex
    /\ tl_op.index = 0
    /\ Len(tl_op.before) = 3
    /\ tl_op.before[2].end # tl_op.before[2].start + 11
    /\ tl_op.before[2].reinvest # tl_op.before[3].reinvest
    /\ scenarios[1].start = 1
    /\ scenarios[1].end = 12

\* C13: add_scenario appends one segment and changes no other: 1..12 on an
\* empty list, otherwise last.end + 1 .. last.end + 12 for the last segment
\* of the list, edited or not.
C13_AddAppends ==
    tl_op.op = "add" =>
        LET b == tl_op.before
            new == scenarios[Len(scenarios)]
        IN  /\ Len(scenarios) = Len(b) + 1
            /\ \A i \in 1..Len(b) : scenarios[i] = b[i]
            /\ Len(b) = 0 => (new.start = 1 /\ new.end = 12)
            /\ Len(b) > 0 =>
                  /\ new.start = b[Len(b)].end + 1
                  /\ new.end = b[Len(b)].end + 12

\* a segment has been added after a last segment whose end was edited
C13_Witness ==
    /\ tl_op.op = "add"
    /\ Len(tl_op.before) = 2
    /\ tl_op.before[2].end = 22
    /\ scenarios[3].start = 23
    /\ scenarios[3].end = 34

\* C14: remove_scenario(index) with an index that is not a position
\* 0..len-1, a negative index or index = len included, fails with an index
\* error and leaves the list as it was.
C14_InvalidIndexFails ==
    (/\ tl_op.op \in {"remove", "IndexError"}
     /\ tl_op.index \notin 0..(Len(tl_op.before) - 1)) =>
        /\ tl_op.op = "IndexError"
        /\ scenarios = tl_op.before

\* C19 as stated: with no manual edit the list is chained from month 1 in
\* 12-month segments and total_months() = 12 * number of segments.
C19_TwelveTimesCount ==
    ~edited =>
        /\ Chained(scenarios)
        /\ TwelveMonths(scenarios)
        /\ TotalMonths(scenarios) = 12 * Len(scenarios)

\* C19 (amended): with no manual edit the list is chained from month 1 in
\* 12-month segments; total_months() = 12 * number of segments when the list
\* is not empty, and 12 when it is empty.
C19_TwelveTimesCountUnlessEmpty ==
    ~edited =>
        /\ Chained(scenarios)
        /\ TwelveMonths(scenarios)
        /\ \A i \in 1..Len(scenarios) : scenarios[i].end = 12 * i
        /\ Len(scenarios) > 0 => TotalMonths(scenarios) = 12 * Len(scenarios)
        /\ Len(scenarios) = 0 => TotalMonths(scenarios) = 12

\* with no edit, a segment has been removed from a three-segment list
C19_Witness ==
    /\ ~edited
    /\ tl_op.op = "remove"
    /\ Len(tl_op.before) = 3
    /\ Len(scenarios) = 2
    /\ scenarios[2].end = 24

C16_AlwaysReturnsResult ==
    /\ fetches <= (IF retries > 0 THEN retries ELSE 0)
    /\ m_pc = "returned" =>
          /\ m_ret # None
          /\ \A r \in m_ret :
                r \in {YieldFor(p) : p \in MiningParams} \cup {MiningDefault}

\* C17: a submit under a blank name or under a name the store already has
\* leaves the store as it was; any other submit adds exactly the one key,
\* with the submitted entry, and changes no other entry.
C17_SaveRejectsDuplicate ==
    st_op.op = "save" =>
        IF Strip(st_op.name) = << >> \/ st_op.name \in DOMAIN st_op.before
        THEN saved_results = st_op.before
        ELSE /\ DOMAIN saved_results = DOMAIN st_op.before \cup {st_op.name}
             /\ Cardinality(DOMAIN saved_results) =
                    Cardinality(DOMAIN st_op.before) + 1
             /\ saved_results[st_op.name] = st_op.entry
             /\ \A n \in DOMAIN st_op.before :
                    saved_results[n] = st_op.before[n]

\* a submit under an existing name with another calculation and timestamp
C17_Witness ==
    /\ st_op.op = "save"
    /\ st_op.name \in DOMAIN st_op.before
    /\ st_op.before[st_op.name].timestamp # st_op.entry.timestamp
    /\ st_op.before[st_op.name].data # st_op.entry.data
    /\ Cardinality(DOMAIN saved_results) = 2

\* f is x / DisplayDiv with its fraction dropped: no further from zero than
\* the amount, less than one unit away from it, and never of the other sign
TruncatedTowardsZero(f, x) ==
    /\ f * DisplayDiv <= x \/ x <= f * DisplayDiv
    /\ x >= 0 => (f >= 0 /\ f * DisplayDiv <= x /\ x < (f + 1) * DisplayDiv)
    /\ x <= 0 => (f <= 0 /\ x <= f * DisplayDiv /\ (f - 1) * DisplayDiv < x)

\* every integer field of row i is the truncation of the amount behind it
RowTruncated(i) ==
    LET r == results[i]
        t == trace[i]
    IN  /\ r.Month = t.month
        /\ TruncatedTowardsZero(r.Revenue, t.profit + t.cost)
        /\ TruncatedTowardsZero(r.Cost, t.cost)
        /\ TruncatedTowardsZero(r.Profit, t.profit)
        /\ TruncatedTowardsZero(r.Salary, t.salary)
        /\ TruncatedTowardsZero(r.Reinvest, t.to_reinvest)
        /\ TruncatedTowardsZero(r.ToWallet, t.to_wallet)
        /\ TruncatedTowardsZero(r.Savings, t.savings_after)

\* C21 as stated: in every row the integer fields are the truncations toward
\* zero of the amounts behind them, and the row's revenue less the row's cost
\* is the row's profit, in both display modes.
C21_RowRevenueLessCostIsProfit ==
    \A i \in 1..Len(results) :
        /\ RowTruncated(i)
        /\ results[i].Revenue - results[i].Cost = results[i].Profit

\* C21 (amended): in every row the integer fields are the truncations toward
\* zero of the amounts behind them, the revenue being the truncation of
\* profit + cost; the row's revenue less the row's cost is within 1 of the
\* row's profit, and equal to it when profit and cost are whole amounts of
\* the display currency.
C21_RowsTruncatedWithinOne ==
    \A i \in 1..Len(results) :
        LET d == results[i].Revenue - results[i].Cost - results[i].Profit
        IN  /\ RowTruncated(i)
            /\ d \in {-1, 0, 1}
            /\ (trace[i].profit % DisplayDiv = 0 /\ trace[i].cost % DisplayDiv = 0)
                   => d = 0

\* a row in dollars whose profit has a fraction: it is cut towards zero and
\* the row's revenue less the row's cost is one off the row's profit
C21_Witness ==
    \E i \in 1..Len(results) :
        /\ show_in_usd
        /\ trace[i].profit % DisplayDiv # 0
        /\ trace[i].profit < 0
        /\ results[i].Profit * DisplayDiv > trace[i].profit
        /\ results[i].Revenue - results[i].Cost # results[i].Profit

\* the fleet at the end of the month before row i: the initial count for the
\* first row, the fleet recorded in the row before otherwise
FleetBeforeRow(i) == IF i = 1 THEN asic_count ELSE results[i - 1].ASIC

\* C22: units bought in month m do not earn in month m. The profit and cost
\* of a month come from the fleet as it stood at the end of the month before
\* (the initial count at first), the row records the fleet after the month's
\* purchase, and when months m and m+1 are both simulated the profit of
\* month m+1 is daily profit per unit * 30 * the fleet recorded in row m.
C22_BoughtUnitsEarnNextMonth ==
    \A i \in 1..Len(results) :
        /\ trace[i].profit = daily_profit_per_asic_rub * 30 * FleetBeforeRow(i)
        /\ trace[i].cost = daily_cost_per_asic_rub * 30 * FleetBeforeRow(i)
        /\ results[i].ASIC =
               FleetBeforeRow(i) +
               (IF trace[i].new_asics > 0 THEN trace[i].new_asics ELSE 0)
        /\ (i > 1 /\ results[i].Month = results[i - 1].Month + 1) =>
              /\ trace[i].profit =
                     daily_profit_per_asic_rub * 30 * results[i - 1].ASIC
              /\ results[i].Profit =
                     Trunc(daily_profit_per_asic_rub * 30 * results[i - 1].ASIC,
                           DisplayDiv)

\* units were bought in month m, and month m+1, simulated as well, earned
\* with them while month m had earned without them
C22_Witness ==
    \E i \in 2..Len(results) :
        /\ results[i].Month = results[i - 1].Month + 1
        /\ results[i - 1].ASIC > trace[i - 1].asics_before
        /\ trace[i - 1].profit =
               daily_profit_per_asic_rub * 30 * trace[i - 1].asics_before
        /\ trace[i].profit > trace[i - 1].profit

\* the mining entry holds a value that get_cached_data gives out at time t
MiningCacheValid(c, t) == GetCachedData(c, "mining_data", t) # None

\* a step that is a call of get_mining_data_with_retry
IsMiningCall ==
    /\ m_pc \in {"idle", "returned"}
    /\ m_pc' \in {"trying", "returned"}
    /\ now' = now

\* C23: the mining cache has one entry, not keyed by the request. A call made
\* within 600 seconds of a successful fetch returns the result of that fetch
\* whatever its own parameters are and performs no fetch; the default
\* returned when every attempt fails is never stored in the cache.
C23_CacheNotKeyedByRequest ==
    [][ /\ (IsMiningCall /\ MiningCacheValid(API_CACHE, now)) =>
              /\ m_pc' = "returned"
              /\ m_ret' = API_CACHE["mining_data"].value
              /\ fetches' = 0
              /\ API_CACHE' = API_CACHE
        /\ (m_pc = "trying" /\ m_ret' = {MiningDefault}) =>
              /\ m_pc' = "returned"
              /\ API_CACHE' = API_CACHE
        /\ API_CACHE'["mining_data"].value # {MiningDefault}
      ]_vars

\* a call for the second request has returned, without a fetch, the result
\* that was fetched for the first one
C23_Witness ==
    /\ m_pc = "returned"
    /\ m_params = 2
    /\ fetches = 0
    /\ retries > 0
    /\ m_ret = {YieldFor(1)}
    /\ API_CACHE["mining_data"].value = {YieldFor(1)}
    /\ now - Val(API_CACHE["mining_data"].timestamp) < 600

====
